---- MODULE Spec2Model ----
(***************************************************************************)
(* Model of src/native/tor.rs: the process-wide Tor client slot            *)
(* (TOR_CLIENT, a tokio OnceCell), get_tor_client / init_tor_client,       *)
(* connect and launch_onion_service, together with the part of the arti    *)
(* reverse proxy that the launcher configures.                             *)
(*                                                                         *)
(* Callers are cooperative tasks.  A call is suspended only at an .await   *)
(* that can return Pending: the semaphore acquire inside                   *)
(* OnceCell::get_or_try_init, create_bootstrapped, and client.connect;     *)
(* the code between two suspensions is one step.  A suspended call may be  *)
(* cancelled, which drops its future.  Calls carry no task name: a call is *)
(* known by where it waits (the semaphore queue, the initializer, the      *)
(* set of opening streams) and by its call record.                         *)
(***************************************************************************)
EXTENDS Naturals, Integers, Sequences, FiniteSets, Bags, TLC

\* ---------------------------------------------------------------- bounds
MaxCalls == 2      \* calls of connect / launch_onion_service made in a run
MaxPort == 2       \* virtual ports are 0..MaxPort (u16 in the code)
MaxServices == 2   \* onion services launched in a run

Ports == 0..MaxPort

\* custom_path: Option<&PathBuf>
NoPath == "None"
Paths == {NoPath, "B1", "B2"}

\* nickname: the strings handed to HsNickname::new, as character sequences
Nicknames == {<< >>, <<"a">>, <<"b">>, <<"a", " ">>}
NickChars == {"a", "b", "_", "-"}

\* addr: SocketAddr of the local target
Addrs == {"S1", "S2"}

Ops == {"connect", "launch"}

\* the domains a connect call names: a clearnet host or a hidden service
Domains == {"clearnet", "onion"}

\* the error enum (lines 26-36) and the two other ways a call ends
ErrArtiClient == "ArtiClient"
ErrConfigBuilder == "ConfigBuilder"
ErrProxyConfig == "ProxyConfig"
ErrInvalidNickname == "InvalidNickname"
Errors == {ErrArtiClient, ErrConfigBuilder, ErrProxyConfig, ErrInvalidNickname}
ResOk == "Ok"
ResCancelled == "Cancelled"

VARIABLES
    cell,      \* TOR_CLIENT: NoClient, or the stored client
    permit,    \* the OnceCell semaphore: "free", "held" by the initializing
               \* call, "handed" to the head of the queue, or "closed"
    holder,    \* the call suspended in create_bootstrapped, or NoCall
    waiters,   \* the calls queued on the semaphore, first in first out
    streams,   \* the calls suspended in client.connect (a bag)
    disk,      \* directories the library has created
    services,  \* the onion services launched so far
    ncalls,    \* calls started
    nclients,  \* clients created by create_bootstrapped (successful initializer runs)
    nfailed,   \* initializer runs that returned an error
    returned,  \* client ids that get_tor_client has returned to a caller
    last       \* what the latest step finished: a call, a request, or nothing

vars == <<cell, permit, holder, waiters, streams, disk, services, ncalls,
          nclients, nfailed, returned, last>>

NoClient == [id |-> 0]
NoCall == [op |-> "none"]
NoLast == [ev |-> "none"]

\* ------------------------------------------------- init_tor_client, lines 75-101
\* PathBuf::join
Join(path, name) == <<path, name>>

\* the storage directories a default TorClientConfigBuilder carries
DefaultCacheDir == <<"ARTI_CACHE">>
DefaultStateDir == <<"ARTI_LOCAL_DATA">>

\* ClientConfig with the storage branch starting from a fresh builder, which
\* loses the address filter setting.
ClientConfigFiltered(custom_path) ==
    [allow_onion_addrs |-> (custom_path = NoPath),
     cache_dir |-> IF custom_path # NoPath THEN Join(custom_path, "cache")
                   ELSE DefaultCacheDir,
     state_dir |-> IF custom_path # NoPath THEN Join(custom_path, "state")
                   ELSE DefaultStateDir]

\* ClientConfig with the two directories taken for one another.
ClientConfigSwapped(custom_path) ==
    [allow_onion_addrs |-> TRUE,
     cache_dir |-> IF custom_path # NoPath THEN Join(custom_path, "state")
                   ELSE DefaultCacheDir,
     state_dir |-> IF custom_path # NoPath THEN Join(custom_path, "cache")
                   ELSE DefaultStateDir]

\* The configuration init_tor_client hands to TorClient::builder().config(..)
ClientConfig(custom_path) ==
    [allow_onion_addrs |-> TRUE,
     cache_dir |-> IF custom_path # NoPath THEN Join(custom_path, "cache")
                   ELSE DefaultCacheDir,
     state_dir |-> IF custom_path # NoPath THEN Join(custom_path, "state")
                   ELSE DefaultStateDir]

\* A client that create_bootstrapped built from config: a new instance each time
NewClient(config) == [id |-> nclients + 1, config |-> config]

\* ------------------------------------------------- how a call ends
\* The call c ends in res before its body has run (an error of get_tor_client
\* through the ? of lines 119 and 134, or a dropped future).  nickname and port
\* are the arguments a launch_onion_service call was made with.
Finish(c, res) ==
    IF c.op = "launch"
    THEN \E nickname \in Nicknames, port \in Ports :
             last' = [ev |-> "call", op |-> c.op, res |-> res, io |-> c.io,
                      nickname |-> nickname, port |-> port]
    ELSE last' = [ev |-> "call", op |-> c.op, res |-> res, io |-> c.io]

\* Return with the worker joined to the caller: it ends when the call does.
ReturnStopsWorkers ==
    /\ last # NoLast
    /\ last' = NoLast
    /\ services' = [s \in 1..Len(services) |->
                       [services[s] EXCEPT !.worker = "exited"]]
    /\ UNCHANGED <<cell, permit, holder, waiters, streams, disk, ncalls,
                   nclients, nfailed, returned>>

\* The result is handed to the caller; nothing else is left of the step.
Return ==
    /\ last # NoLast
    /\ last' = NoLast
    /\ UNCHANGED <<cell, permit, holder, waiters, streams, disk, services,
                   ncalls, nclients, nfailed, returned>>

\* ------------------------------------------------- launch_onion_service, lines 124-161
\* one_port without the check for port 0.
one_port_allow_zero(port) == [low |-> port, high |-> port]

\* one_port giving the range from port upward.
one_port_upward(port) ==
    IF port = 0 THEN [err |-> "ZeroPort"] ELSE [low |-> port, high |-> MaxPort]

\* ProxyPattern::one_port (line 138): port 0 is refused, any other port gives
\* the range holding that port alone.
ZeroPort == [err |-> "ZeroPort"]
one_port(port) ==
    IF port = 0 THEN ZeroPort ELSE [low |-> port, high |-> port]

\* ProxyAction::Forward(Encapsulation::default(), TargetAddr::Inet(addr)), lines 139-140
ForwardTo(addr) == [kind |-> "Forward", encap |-> "Simple", target |-> addr]

\* vec![ProxyRule::new(pattern, action)], line 141
ProxyRules(pattern, action) == << [source |-> pattern, target |-> action] >>

\* HsNickname::new checking only that the string is not empty.
ValidNicknameLax(nickname) == Len(nickname) > 0

\* HsNickname::new (line 144): a nickname is a non-empty string of letters,
\* digits, '_' and '-'.
ValidNickname(nickname) ==
    /\ Len(nickname) > 0
    /\ \A i \in 1..Len(nickname) : nickname[i] \in NickChars

\* The fallible library calls of the body: ProxyConfigBuilder::build (142),
\* OnionServiceConfigBuilder::build (147), TorClient::launch_onion_service
\* (149).  A call's library outcome names the first of them to fail, if any.
LibOutcomes == {"none", "proxy_build", "service_build", "launch"}

\* client.launch_onion_service (line 149) refuses a nickname that a service
\* still published by this process holds.
NicknameInUse(nickname) ==
    \E s \in 1..Len(services) :
        services[s].nickname = nickname /\ services[s].handle

\* LastStep with the nickname validated before the proxy is configured.
LastStepNicknameFirst(nickname, port, lib) ==
    IF ~ValidNickname(nickname) THEN 144
    ELSE IF one_port(port) = ZeroPort THEN 138
    ELSE IF lib = "proxy_build" THEN 142
    ELSE IF lib = "service_build" THEN 147
    ELSE IF lib = "launch" \/ NicknameInUse(nickname) THEN 149
    ELSE 160

\* The line at which the body of lines 136-160 returns: the first ? to meet
\* an error (138 port pattern, 142 proxy config, 144 nickname, 147 service
\* config, 149 library launch), or the Ok of line 160.
LastStep(nickname, port, lib) ==
    IF one_port(port) = ZeroPort THEN 138
    ELSE IF lib = "proxy_build" THEN 142
    ELSE IF ~ValidNickname(nickname) THEN 144
    ELSE IF lib = "service_build" THEN 147
    ELSE IF lib = "launch" \/ NicknameInUse(nickname) THEN 149
    ELSE 160

\* The value launch_onion_service returns at line n, the error converted by
\* the From impl for its type (lines 51-73): ProxyConfigError from one_port,
\* ConfigBuildError from both builders, InvalidNickname from HsNickname::new,
\* arti_client::Error from the launch.
LaunchResult(n) ==
    CASE n = 138 -> ErrProxyConfig
      [] n = 142 -> ErrConfigBuilder
      [] n = 144 -> ErrInvalidNickname
      [] n = 147 -> ErrConfigBuilder
      [] n = 149 -> ErrArtiClient
      [] OTHER -> ResOk

\* The service the library launched and the worker spawned for it, lines 149-158.
NewService(nickname, addr, port) ==
    [nickname |-> nickname, port |-> port, addr |-> addr,
     proxy |-> ProxyRules(one_port(port), ForwardTo(addr)),
     handle |-> TRUE, worker |-> "running"]

\* The body with the library launch awaited: the caller can be dropped after
\* the service is published and before its worker is spawned.
LaunchBodySuspends(c, nickname, addr, port) ==
    \E lib \in LibOutcomes, dropped \in BOOLEAN :
        LET n == LastStep(nickname, port, lib)
        IN /\ n = 160 => Len(services) < MaxServices
           /\ services' = IF n = 160
                          THEN Append(services,
                                 [NewService(nickname, addr, port) EXCEPT
                                    !.worker = IF dropped THEN "unspawned"
                                               ELSE "running"])
                          ELSE services
           /\ last' = [ev |-> "call", op |-> c.op,
                       res |-> IF n = 160 /\ dropped THEN ResCancelled
                               ELSE LaunchResult(n),
                       io |-> IF n >= 149 THEN c.io \cup {"launch"} ELSE c.io,
                       nickname |-> nickname, port |-> port]
           /\ UNCHANGED streams

\* Lines 136-160, which run without suspending once get_tor_client has
\* returned the client to the call c.  nickname, addr and port are first
\* read here.
LaunchBody(c, nickname, addr, port) ==
    \E lib \in LibOutcomes :
        LET n == LastStep(nickname, port, lib)
        IN /\ n = 160 => Len(services) < MaxServices
           /\ services' = IF n = 160
                          THEN Append(services, NewService(nickname, addr, port))
                          ELSE services
           /\ last' = [ev |-> "call", op |-> c.op, res |-> LaunchResult(n),
                       io |-> IF n >= 149 THEN c.io \cup {"launch"} ELSE c.io,
                       nickname |-> nickname, port |-> port]
           /\ UNCHANGED streams

\* ------------------------------------------------- connect, lines 113-121
\* client.connect((domain, port)) is called (line 120) and the caller suspends.
ConnectOpen(c) ==
    /\ streams' = streams (+) SetToBag({[c EXCEPT !.io = @ \cup {"stream"}]})
    /\ last' = NoLast
    /\ UNCHANGED services

\* What a call does with the client get_tor_client returned (lines 119-120 and
\* 134-160), up to its next suspension or its return.  c is the call.
Proceed(c) ==
    IF c.op = "connect"
    THEN ConnectOpen(c)
    ELSE \E nickname \in Nicknames, addr \in Addrs, port \in Ports :
             LaunchBody(c, nickname, addr, port)

\* The client's address filter (set at line 82) refuses a hidden-service name
\* unless the configuration allows onion addresses.
AddressFiltered(config, domain) ==
    domain = "onion" /\ ~config.allow_onion_addrs

\* client.connect that opens the stream again when the library fails.
ConnectDoneRetry(c) ==
    /\ last = NoLast
    /\ BagIn(c, streams)
    /\ \E ok \in BOOLEAN :
          IF ok
          THEN /\ streams' = streams (-) SetToBag({c})
               /\ Finish(c, ResOk)
          ELSE /\ streams' = (streams (-) SetToBag({c}))
                                (+) SetToBag({[c EXCEPT !.io = @ \cup {"retry"}]})
               /\ last' = NoLast
    /\ UNCHANGED <<cell, permit, holder, waiters, disk, services, ncalls,
                   nclients, nfailed, returned>>

\* client.connect returns: the stream, or the library's error through ?.
ConnectDone(c) ==
    /\ last = NoLast
    /\ BagIn(c, streams)
    /\ streams' = streams (-) SetToBag({c})
    /\ \E domain \in Domains, ok \in BOOLEAN :
          LET filtered == AddressFiltered(cell.config, domain)
          IN last' = [ev |-> "call", op |-> c.op,
                      res |-> IF ok /\ ~filtered THEN ResOk ELSE ErrArtiClient,
                      io |-> c.io, domain |-> domain, filtered |-> filtered]
    /\ UNCHANGED <<cell, permit, holder, waiters, disk, services, ncalls,
                   nclients, nfailed, returned>>

\* ------------------------------------------------- get_tor_client, lines 105-111
NewCall(op, path) ==
    [op |-> op, path |-> path, client |-> 0, waited |-> FALSE, io |-> {}]

\* The permit is dropped with the calls in rest still queued: it passes to the
\* longest waiter, if any.
ReleasePermit(rest) ==
    permit' = IF rest = << >> THEN "free" ELSE "handed"

\* The initializer closure runs in the call c, which has the permit:
\* init_tor_client builds the config (line 96: an error returns at once,
\* dropping the permit) and then suspends in create_bootstrapped (lines
\* 97-100), which creates the client's directories.  rest is the queue.
BeginInit(c, rest) ==
    /\ waiters' = rest
    /\ \E buildOk \in BOOLEAN :
        IF buildOk
        THEN /\ holder' = [c EXCEPT !.io = @ \cup {"bootstrap"}]
             /\ disk' = disk \cup {ClientConfig(c.path).cache_dir,
                                   ClientConfig(c.path).state_dir}
             /\ permit' = "held"
             /\ last' = NoLast
             /\ UNCHANGED nfailed
        ELSE /\ Finish(c, ErrConfigBuilder)
             /\ nfailed' = nfailed + 1
             /\ ReleasePermit(rest)
             /\ UNCHANGED <<holder, disk>>

\* CallReady creating the storage directories of the path it was passed.
CallReadyMkdir(op, path) ==
    /\ last = NoLast /\ ncalls < MaxCalls
    /\ cell # NoClient
    /\ ncalls' = ncalls + 1
    /\ returned' = returned \cup {cell.id}
    /\ disk' = disk \cup {ClientConfig(path).cache_dir, ClientConfig(path).state_dir}
    /\ Proceed([NewCall(op, path) EXCEPT !.client = cell.id])
    /\ UNCHANGED <<cell, permit, holder, waiters, nclients, nfailed>>

\* CallReady reconfiguring the stored client for the path it was passed.
CallReadyReplace(op, path) ==
    /\ last = NoLast /\ ncalls < MaxCalls
    /\ cell # NoClient
    /\ ncalls' = ncalls + 1
    /\ returned' = returned \cup {cell.id}
    /\ cell' = [cell EXCEPT !.config = ClientConfig(path)]
    /\ Proceed([NewCall(op, path) EXCEPT !.client = cell.id])
    /\ UNCHANGED <<permit, holder, waiters, disk, nclients, nfailed>>

\* First poll of get_or_try_init, the cell initialized: the stored client.
CallReady(op, path) ==
    /\ last = NoLast /\ ncalls < MaxCalls
    /\ cell # NoClient
    /\ ncalls' = ncalls + 1
    /\ returned' = returned \cup {cell.id}
    /\ Proceed([NewCall(op, path) EXCEPT !.client = cell.id])
    /\ UNCHANGED <<cell, permit, holder, waiters, disk, nclients, nfailed>>

\* First poll, the cell empty and the permit free: the call takes the permit
\* and runs the initializer.
CallInit(op, path) ==
    /\ last = NoLast /\ ncalls < MaxCalls
    /\ cell = NoClient
    /\ permit = "free"
    /\ ncalls' = ncalls + 1
    /\ BeginInit(NewCall(op, path), waiters)
    /\ UNCHANGED <<cell, streams, services, nclients, returned>>

\* First poll, the cell empty and the permit taken: the call queues on the
\* semaphore.
CallWait(op, path) ==
    /\ last = NoLast /\ ncalls < MaxCalls
    /\ cell = NoClient
    /\ permit \in {"held", "handed"}
    /\ ncalls' = ncalls + 1
    /\ waiters' = Append(waiters, [NewCall(op, path) EXCEPT !.waited = TRUE])
    /\ last' = NoLast
    /\ UNCHANGED <<cell, permit, holder, streams, disk, services, nclients, nfailed,
                   returned>>

\* The queued call that was handed the permit runs its own initializer.
WaiterInit ==
    /\ last = NoLast
    /\ permit = "handed"
    /\ BeginInit(Head(waiters), Tail(waiters))
    /\ UNCHANGED <<cell, streams, services, ncalls, nclients, returned>>

\* the queue without its i-th call
RemoveAt(q, i) == SubSeq(q, 1, i - 1) \o SubSeq(q, i + 1, Len(q))

\* A queued call woken because the cell was set (the semaphore is closed):
\* it reads the stored client.
WaiterObserve(i) ==
    /\ last = NoLast
    /\ i \in 1..Len(waiters)
    /\ cell # NoClient
    /\ waiters' = RemoveAt(waiters, i)
    /\ returned' = returned \cup {cell.id}
    /\ Proceed([waiters[i] EXCEPT !.client = cell.id])
    /\ UNCHANGED <<cell, permit, holder, disk, ncalls, nclients, nfailed>>

\* InitOk with the semaphore left open: the permit is dropped like any other.
InitOkLeavesOpen ==
    /\ last = NoLast
    /\ holder # NoCall
    /\ cell' = NewClient(ClientConfig(holder.path))
    /\ nclients' = nclients + 1
    /\ ReleasePermit(waiters)
    /\ holder' = NoCall
    /\ returned' = returned \cup {cell'.id}
    /\ Proceed([holder EXCEPT !.client = cell'.id])
    /\ UNCHANGED <<waiters, disk, ncalls, nfailed>>

\* create_bootstrapped returns the client: set_value stores it and closes the
\* semaphore, which wakes every queued call; the initializing caller gets the
\* stored client.
InitOk ==
    /\ last = NoLast
    /\ holder # NoCall
    /\ cell' = NewClient(ClientConfig(holder.path))
    /\ nclients' = nclients + 1
    /\ permit' = "closed"
    /\ holder' = NoCall
    /\ returned' = returned \cup {cell'.id}
    /\ Proceed([holder EXCEPT !.client = cell'.id])
    /\ UNCHANGED <<waiters, disk, ncalls, nfailed>>

\* InitFail with the permit kept by the failed call.
InitFailKeepsPermit ==
    /\ last = NoLast
    /\ holder # NoCall
    /\ Finish(holder, ErrArtiClient)
    /\ nfailed' = nfailed + 1
    /\ holder' = NoCall
    /\ UNCHANGED <<cell, permit, waiters, streams, disk, services, ncalls,
                   nclients, returned>>

\* InitFail with the failure handed to every queued call as well.
InitFailWakesAll ==
    /\ last = NoLast
    /\ holder # NoCall
    /\ Finish(holder, ErrArtiClient)
    /\ nfailed' = nfailed + 1
    /\ holder' = NoCall
    /\ waiters' = << >>
    /\ permit' = "free"
    /\ UNCHANGED <<cell, streams, disk, services, ncalls, nclients, returned>>

\* create_bootstrapped fails: the error goes to this caller (the ? of lines
\* 119 and 134), the permit is dropped and the cell stays empty.
InitFail ==
    /\ last = NoLast
    /\ holder # NoCall
    /\ Finish(holder, ErrArtiClient)
    /\ nfailed' = nfailed + 1
    /\ holder' = NoCall
    /\ ReleasePermit(waiters)
    /\ UNCHANGED <<cell, waiters, streams, disk, services, ncalls, nclients,
                   returned>>

\* ------------------------------------------------- cancellation
\* The caller's future is dropped while it runs the initializer: the
\* initializer future is part of it and is dropped too; so is the permit.
CancelInit ==
    /\ last = NoLast
    /\ holder # NoCall
    /\ Finish(holder, ResCancelled)
    /\ holder' = NoCall
    /\ ReleasePermit(waiters)
    /\ UNCHANGED <<cell, waiters, streams, disk, services, ncalls, nclients, nfailed,
                   returned>>

\* CancelWaiter taking the initializer in flight down with the waiter.
CancelWaiterAbortsInit(i) ==
    /\ last = NoLast
    /\ i \in 1..Len(waiters)
    /\ Finish(waiters[i], ResCancelled)
    /\ waiters' = RemoveAt(waiters, i)
    /\ holder' = NoCall
    /\ IF cell = NoClient THEN ReleasePermit(waiters') ELSE UNCHANGED permit
    /\ UNCHANGED <<cell, streams, disk, services, ncalls, nclients, nfailed,
                   returned>>

\* The caller's future is dropped while it waits for the permit: it leaves the
\* queue, and hands on the permit if it had just been given it.
CancelWaiter(i) ==
    /\ last = NoLast
    /\ i \in 1..Len(waiters)
    /\ Finish(waiters[i], ResCancelled)
    /\ waiters' = RemoveAt(waiters, i)
    /\ IF permit = "handed" /\ i = 1
       THEN ReleasePermit(Tail(waiters))
       ELSE UNCHANGED permit
    /\ UNCHANGED <<cell, holder, streams, disk, services, ncalls, nclients, nfailed,
                   returned>>

\* The caller's future is dropped while it waits for the stream.
CancelConnect(c) ==
    /\ last = NoLast
    /\ BagIn(c, streams)
    /\ streams' = streams (-) SetToBag({c})
    /\ Finish(c, ResCancelled)
    /\ UNCHANGED <<cell, permit, holder, waiters, disk, services, ncalls,
                   nclients, nfailed, returned>>

\* ------------------------------------------------- the reverse proxy worker
\* The rule list resolving a request for virtual port q: the action of the
\* first rule whose pattern holds q, or the default, which forwards nothing.
Matches(pattern, q) == pattern.low <= q /\ q <= pattern.high

RECURSIVE ResolvePort(_, _)
ResolvePort(rules, q) ==
    IF rules = << >> THEN [kind |-> "DestroyCircuit"]
    ELSE IF Matches(Head(rules).source, q) THEN Head(rules).target
    ELSE ResolvePort(Tail(rules), q)

\* handle_requests still taking requests after the service handle is gone.
HandleRequestAfterDrop(s, q) ==
    /\ last = NoLast
    /\ s \in 1..Len(services)
    /\ services[s].worker = "running"
    /\ last' = [ev |-> "request", service |-> s, port |-> q,
                action |-> ResolvePort(services[s].proxy, q)]
    /\ UNCHANGED <<cell, permit, holder, waiters, streams, disk, services,
                   ncalls, nclients, nfailed, returned>>

\* handle_requests (lines 154-157) takes a request for virtual port q from the
\* incoming stream of service s and acts as the rule list says.
HandleRequest(s, q) ==
    /\ last = NoLast
    /\ s \in 1..Len(services)
    /\ services[s].worker = "running"
    /\ services[s].handle
    /\ last' = [ev |-> "request", service |-> s, port |-> q,
                action |-> ResolvePort(services[s].proxy, q)]
    /\ UNCHANGED <<cell, permit, holder, waiters, streams, disk, services,
                   ncalls, nclients, nfailed, returned>>

\* Dropping one handle shutting down every service of the client.
DropHandleAll(s) ==
    /\ last = NoLast
    /\ s \in 1..Len(services)
    /\ services[s].handle
    /\ services' = [t \in 1..Len(services) |->
                       [services[t] EXCEPT !.handle = FALSE]]
    /\ UNCHANGED <<cell, permit, holder, waiters, streams, disk, ncalls,
                   nclients, nfailed, returned, last>>

\* The caller drops the Arc<RunningOnionService> it was returned.
DropHandle(s) ==
    /\ last = NoLast
    /\ s \in 1..Len(services)
    /\ services[s].handle
    /\ services' = [services EXCEPT ![s].handle = FALSE]
    /\ UNCHANGED <<cell, permit, holder, waiters, streams, disk, ncalls,
                   nclients, nfailed, returned, last>>

\* The incoming stream has ended: handle_requests returns Ok and the task ends.
WorkerExit(s) ==
    /\ last = NoLast
    /\ s \in 1..Len(services)
    /\ services[s].worker = "running"
    /\ ~services[s].handle
    /\ services' = [services EXCEPT ![s].worker = "exited"]
    /\ UNCHANGED <<cell, permit, holder, waiters, streams, disk, ncalls,
                   nclients, nfailed, returned, last>>

\* The worker's panic taking the service down with it.
WorkerFailUnpublishes(s) ==
    /\ last = NoLast
    /\ s \in 1..Len(services)
    /\ services[s].worker = "running"
    /\ services' = [services EXCEPT ![s].worker = "failed", ![s].handle = FALSE]
    /\ UNCHANGED <<cell, permit, holder, waiters, streams, disk, ncalls,
                   nclients, nfailed, returned, last>>

\* handle_requests returns an error: the unwrap of line 157 panics inside the
\* detached task, whose join handle line 153 discards.
WorkerFail(s) ==
    /\ last = NoLast
    /\ s \in 1..Len(services)
    /\ services[s].worker = "running"
    /\ services' = [services EXCEPT ![s].worker = "failed"]
    /\ UNCHANGED <<cell, permit, holder, waiters, streams, disk, ncalls,
                   nclients, nfailed, returned, last>>

\* ------------------------------------------------- the specification
Init ==
    /\ cell = NoClient
    /\ permit = "free"
    /\ holder = NoCall
    /\ waiters = << >>
    /\ streams = EmptyBag
    /\ disk = {}
    /\ services = << >>
    /\ ncalls = 0
    /\ nclients = 0
    /\ nfailed = 0
    /\ returned = {}
    /\ last = NoLast

Next ==
    \/ \E op \in Ops, path \in Paths : CallReady(op, path)
    \/ \E op \in Ops, path \in Paths : CallInit(op, path)
    \/ \E op \in Ops, path \in Paths : CallWait(op, path)
    \/ WaiterInit
    \/ \E i \in 1..MaxCalls : WaiterObserve(i)
    \/ InitOk
    \/ InitFail
    \/ CancelInit
    \/ \E i \in 1..MaxCalls : CancelWaiter(i)
    \/ \E c \in BagToSet(streams) : ConnectDone(c)
    \/ \E c \in BagToSet(streams) : CancelConnect(c)
    \/ \E s \in 1..MaxServices, q \in 1..MaxPort : HandleRequest(s, q)
    \/ \E s \in 1..MaxServices : DropHandle(s)
    \/ \E s \in 1..MaxServices : WorkerExit(s)
    \/ \E s \in 1..MaxServices : WorkerFail(s)
    \/ Return

Spec == Init /\ [][Next]_vars

\* The runtime polls a task that was woken: a call whose await has completed
\* returns, and a worker whose incoming stream has ended gets to see it.
Fairness ==
    /\ WF_vars(Return)
    /\ \A s \in 1..MaxServices : SF_vars(WorkerExit(s))

FairSpec == Spec /\ Fairness

\* ------------------------------------------------- steps, as the claims name them
IsCall(l) == l.ev = "call"
IsLaunch(l) == l.ev = "call" /\ l.op = "launch"

\* the step ends a call by dropping its future
CancelStep == last = NoLast /\ IsCall(last') /\ last'.res = ResCancelled

\* the step cancels the call that runs the initializer
CancelInitStep == CancelStep /\ holder # NoCall /\ last'.io = {"bootstrap"}

\* the step cancels a call queued on the semaphore
CancelWaiterStep == CancelStep /\ last'.io = {}

\* the step ends an initializer run in an error
InitFailedStep ==
    /\ last = NoLast /\ IsCall(last') /\ nfailed' = nfailed + 1

\* the calls that hold the client get_tor_client returned
Holding == BagToSet(streams)

\* ------------------------------------------------- C1
\* C1: whatever the interleaving of acquire calls, create_bootstrapped
\* completes successfully at most once, and every caller that got a client got
\* the one the cell stores.
C1_OneInitOneClient ==
    /\ nclients <= 1
    /\ returned \subseteq ({cell.id} \ {0})
    /\ \A c \in Holding : c.client = cell.id /\ cell # NoClient

\* Two concurrent first callers hold a client: the one that ran the
\* initializer and the one that queued behind it.
C1_Witness ==
    /\ \E c \in Holding : "bootstrap" \in c.io
    /\ \E c \in Holding : c.waited /\ "bootstrap" \notin c.io

\* ------------------------------------------------- C2
\* C2: an initializer run that fails returns its error to the caller that ran
\* it and leaves the cell empty with the permit given up, so that the next
\* caller (the head of the queue, or a new one) runs the initializer again;
\* an empty cell with no initializer in flight never has its permit held.
C2_FailureAllowsRetry ==
    /\ [][InitFailedStep =>
            /\ cell = NoClient /\ cell' = NoClient
            /\ last'.res \in {ErrConfigBuilder, ErrArtiClient}
            /\ holder' = NoCall
            /\ permit' = IF waiters' = << >> THEN "free" ELSE "handed"]_vars
    /\ []((cell = NoClient /\ holder = NoCall) =>
            permit = IF waiters = << >> THEN "free" ELSE "handed")

\* A failed initializer run was followed by a successful one.
C2_Witness == nfailed > 0 /\ cell # NoClient /\ nclients = 1

\* ------------------------------------------------- C3
\* C3: cancelling the caller that runs the initializer leaves the initializer
\* in flight, to complete for the callers queued behind it.
C3_InitSurvivesCancel == [][CancelInitStep => holder' = holder]_vars

EmptyOrInvalid(nickname) ==
    nickname = << >> \/ \E i \in 1..Len(nickname) : nickname[i] = " "

\* C5 as claimed: a launch_onion_service call with an empty or invalid
\* nickname returns InvalidNickname and has opened no socket and written
\* nothing to disk, whatever the state of the cell.
C5_NicknameFirst ==
    (IsLaunch(last) /\ EmptyOrInvalid(last.nickname)) =>
        (last.res = ErrInvalidNickname /\ last.io = {})

\* C5 amended: a launch_onion_service call with an empty or invalid nickname
\* never succeeds, never reaches the library launch and adds no service or
\* worker.  Once get_tor_client has given it the client it returns
\* InvalidNickname, unless the proxy configuration, which comes first, fails:
\* ProxyConfig for port 0, always, or ConfigBuilder.  With the cell already
\* initialized it opens no socket and creates nothing on disk; with the cell
\* empty it first runs the bootstrap.
C5_NicknameAfterAcquire ==
    /\ []((IsLaunch(last) /\ EmptyOrInvalid(last.nickname)) =>
            /\ last.res # ResOk
            /\ last.io \subseteq {"bootstrap"}
            /\ (last.res = ErrInvalidNickname => last.port # 0))
    /\ [][(last = NoLast /\ IsLaunch(last') /\ EmptyOrInvalid(last'.nickname)) =>
            /\ services' = services
            /\ (cell' # NoClient /\ ~CancelStep) =>
                  /\ last'.res \in {ErrInvalidNickname, ErrProxyConfig, ErrConfigBuilder}
                  /\ (last'.res = ErrProxyConfig <=> last'.port = 0)
            /\ (cell # NoClient) =>
                  (disk' = disk /\ last'.io = {})]_vars

\* With the cell initialized, a launch with an invalid nickname has returned
\* InvalidNickname without any effect outside the process.
C5_Witness ==
    /\ IsLaunch(last) /\ EmptyOrInvalid(last.nickname)
    /\ last.res = ErrInvalidNickname /\ last.io = {}
    /\ cell # NoClient /\ nclients = 1

\* ------------------------------------------------- C6
\* C6: once the cell holds a client, no call changes it, runs an initializer
\* or creates a directory, whatever custom_path it passes; every call is
\* given the stored client.
C6_LaterPathIgnored ==
    [][cell # NoClient =>
         /\ cell' = cell
         /\ disk' = disk
         /\ nclients' = nclients /\ nfailed' = nfailed
         /\ holder' = NoCall
         /\ returned' = {cell.id}
         /\ \A c \in BagToSet(streams') : c.client = cell.id]_vars

\* A call made after the client was initialized with one custom path passed
\* another custom path: it holds the stored client, and nothing exists under
\* its own path.
C6_Witness ==
    \E c \in Holding :
        /\ ~c.waited /\ "bootstrap" \notin c.io
        /\ c.path # NoPath
        /\ cell.config.cache_dir # DefaultCacheDir
        /\ ClientConfig(c.path) # cell.config
        /\ c.client = cell.id
        /\ ClientConfig(c.path).cache_dir \notin disk
        /\ ClientConfig(c.path).state_dir \notin disk

\* ------------------------------------------------- C7
\* C7: the cell is either empty or holds the one client; it changes only from
\* empty to the client that the initializer in flight has just bootstrapped;
\* an empty cell never has its semaphore closed, so it can still be filled.
C7_SlotLifecycle ==
    /\ [](\/ cell = NoClient
          \/ \E p \in Paths : cell = [id |-> 1, config |-> ClientConfig(p)])
    /\ [][cell' # cell =>
            /\ cell = NoClient
            /\ holder # NoCall
            /\ cell' = [id |-> 1, config |-> ClientConfig(holder.path)]
            /\ nclients = 0 /\ nclients' = 1]_vars
    /\ [](cell = NoClient <=> permit # "closed")

\* With the client stored, a later call has failed or was cancelled.
C7_Witness ==
    /\ cell # NoClient
    /\ IsCall(last) /\ last.res \in Errors \cup {ResCancelled}
    /\ "bootstrap" \notin last.io

\* ------------------------------------------------- C8
\* C8: cancelling a queued call takes that call out of the queue and nothing
\* else: the initializer in flight stays in flight with the permit, no
\* initializer is started or ended, the other queued calls keep their order,
\* and a permit the cancelled call had just been handed passes on.
C8_WaiterCancelHarmless ==
    [][CancelWaiterStep =>
         /\ holder' = holder
         /\ cell' = cell /\ disk' = disk
         /\ nclients' = nclients /\ nfailed' = nfailed
         /\ \E i \in 1..Len(waiters) : waiters' = RemoveAt(waiters, i)
         /\ permit' = IF holder # NoCall THEN "held"
                      ELSE IF cell # NoClient THEN "closed"
                      ELSE IF waiters' = << >> THEN "free" ELSE "handed"]_vars

\* A queued call was cancelled while another call's initializer is in flight.
C8_Witness ==
    /\ IsCall(last) /\ last.res = ResCancelled /\ last.io = {}
    /\ holder # NoCall /\ permit = "held"

\* ------------------------------------------------- C9
\* C9 as claimed: a launch_onion_service call with port 0 that returns has
\* one of the two outcomes the claim allows, ProxyConfig or success, whatever
\* the state of the cell and the outcome of the bootstrap.  (The claim asks
\* for more, that all such calls agree; a call with another outcome refutes
\* it.)
C9_ZeroPortUniform ==
    (IsLaunch(last) /\ last.port = 0 /\ last.res # ResCancelled) =>
        last.res \in {ErrProxyConfig, ResOk}

\* C9 amended: a launch_onion_service call with port 0 never succeeds and
\* never reaches the library launch; it returns ProxyConfig whenever
\* get_tor_client gave it the client, and the initializer's error when its own
\* initializer run failed.
C9_ZeroPortAfterAcquire ==
    /\ []((IsLaunch(last) /\ last.port = 0) =>
            (last.res # ResOk /\ "launch" \notin last.io))
    /\ [][(last = NoLast /\ IsLaunch(last') /\ last'.port = 0 /\ ~CancelStep) =>
            /\ services' = services
            /\ (cell' # NoClient) => last'.res = ErrProxyConfig
            /\ (cell' = NoClient) =>
                  (InitFailedStep /\ last'.res \in {ErrArtiClient, ErrConfigBuilder})]_vars

\* A launch with port 0 and a valid nickname has returned ProxyConfig.
C9_Witness ==
    /\ IsLaunch(last) /\ last.port = 0 /\ ValidNickname(last.nickname)
    /\ last.res = ErrProxyConfig

\* ------------------------------------------------- C10
\* C10: a service launched with port P and target S has the single rule
\* "port P alone, forward to S"; the worker forwards a request exactly when it
\* is for port P, and then to S.
C10_OnlyThePort ==
    /\ \A s \in 1..Len(services) :
          /\ Len(services[s].proxy) = 1
          /\ services[s].proxy[1].source =
                [low |-> services[s].port, high |-> services[s].port]
          /\ services[s].proxy[1].target.kind = "Forward"
          /\ services[s].proxy[1].target.target = services[s].addr
    /\ (last.ev = "request") =>
          /\ (last.action.kind = "Forward") <=> (last.port = services[last.service].port)
          /\ (last.action.kind = "Forward") =>
                last.action.target = services[last.service].addr

\* The worker of a service got a request for a port other than the service's
\* and did not forward it.
C10_Witness ==
    /\ last.ev = "request"
    /\ last.port # services[last.service].port
    /\ last.action.kind = "DestroyCircuit"

\* ------------------------------------------------- C11
\* the service s is published: its handle is live
Published(s) == services[s].handle

\* the worker of service s takes requests
Forwarding(s) == services[s].handle /\ services[s].worker = "running"

\* the handle of service s has been dropped / its worker no longer runs
Dropped(s) == IF s <= Len(services) THEN ~services[s].handle ELSE FALSE
Stopped(s) == IF s <= Len(services) THEN services[s].worker # "running" ELSE FALSE

\* C11: a launched service stays published until its handle is dropped, and
\* nothing but the drop of the handle ends the publication (the drop changes
\* nothing else); once the handle is dropped the worker takes no more
\* requests, and eventually it is no longer running.
C11_PublishedWhileHandleLive ==
    /\ [][\A s \in 1..Len(services) :
            (Published(s) /\ ~services'[s].handle) =>
                (last = NoLast /\ last' = NoLast
                 /\ services' = [services EXCEPT ![s].handle = FALSE])]_vars
    /\ [](last.ev = "request" => Published(last.service))
    /\ \A s \in 1..MaxServices : Dropped(s) ~> Stopped(s)

\* The handle of a service was dropped and its worker has seen the stream end.
C11_Witness ==
    \E s \in 1..Len(services) :
        ~Published(s) /\ services[s].worker = "exited"

\* ------------------------------------------------- C12
\* C12: the failure of a worker happens after its launch has returned, gives
\* no call a result and changes nothing but the worker: the handle stays as
\* it was and the service stays published; a failed worker takes no request.
C12_WorkerFailureSilent ==
    /\ [][\A s \in 1..Len(services) :
            (services[s].worker # "failed" /\ services'[s].worker = "failed") =>
                /\ last = NoLast /\ last' = NoLast
                /\ services' = [services EXCEPT ![s].worker = "failed"]
                /\ services'[s].handle = services[s].handle]_vars
    /\ [](last.ev = "request" => services[last.service].worker = "running")
    /\ []((IsLaunch(last) /\ last.res = ResOk) =>
            services[Len(services)].worker = "running")

\* A worker has failed and the handle of its service is still live.
C12_Witness ==
    \E s \in 1..Len(services) :
        services[s].worker = "failed" /\ Published(s)

\* ------------------------------------------------- C13
\* the step opens a stream / ends a stream-open attempt
StreamOpened == BagCardinality(streams') > BagCardinality(streams)
StreamEnded == BagCardinality(streams') < BagCardinality(streams)

\* C13: a connect call opens a stream only in the step in which
\* get_tor_client gives it the client; the end of the attempt ends the call,
\* with the stream, the library's error as ArtiClient, or by cancellation,
\* and opens nothing again; the cell keeps the client.  A connect call whose
\* get_tor_client failed returns that error and has opened no stream.
C13_ConnectOnce ==
    /\ [][StreamOpened =>
            /\ BagCardinality(streams') = BagCardinality(streams) + 1
            /\ cell' # NoClient
            /\ last' = NoLast
            /\ \/ ncalls' = ncalls + 1
               \/ Len(waiters') < Len(waiters)
               \/ (holder # NoCall /\ holder' = NoCall)]_vars
    /\ [][StreamEnded =>
            /\ BagCardinality(streams') = BagCardinality(streams) - 1
            /\ IsCall(last') /\ last'.op = "connect" /\ "stream" \in last'.io
            /\ last'.res \in {ResOk, ErrArtiClient, ResCancelled}
            /\ cell # NoClient /\ cell' = cell
            /\ ncalls' = ncalls /\ holder' = holder /\ waiters' = waiters]_vars
    /\ [][streams' # streams => (StreamOpened \/ StreamEnded)]_vars
    /\ [](\A c \in BagToSet(streams) :
            c.op = "connect" /\ c.io \subseteq {"bootstrap", "stream"})
    /\ []((IsCall(last) /\ last.op = "connect" /\ "stream" \notin last.io) =>
            /\ last.res \in {ErrConfigBuilder, ErrArtiClient, ResCancelled}
            /\ (last.res = ResCancelled \/ "bootstrap" \in last.io \/ last.res = ErrConfigBuilder))

\* The library failed to open the stream of a connect call: the call has
\* returned ArtiClient and the cell holds the client.
C13_Witness ==
    /\ IsCall(last) /\ last.op = "connect"
    /\ last.res = ErrArtiClient /\ "stream" \in last.io
    /\ cell # NoClient

\* ------------------------------------------------- C14
\* C14: a successful launch adds one service of its own (its rule, handle and
\* running worker) and leaves the others as they are; a step that changes a
\* service (its handle dropped, its worker ended) changes that one alone, so
\* every other service that was published and forwarding still is.
C14_ServicesIndependent ==
    /\ [][Len(services') # Len(services) =>
            /\ Len(services') = Len(services) + 1
            /\ SubSeq(services', 1, Len(services)) = services
            /\ services'[Len(services')].handle
            /\ services'[Len(services')].worker = "running"
            /\ Len(services'[Len(services')].proxy) = 1]_vars
    /\ [][\A s, t \in 1..Len(services) :
            (s # t /\ services'[s] # services[s]) =>
                (services'[t] = services[t])]_vars
    /\ [](\A s, t \in 1..Len(services) :
            (s # t /\ services[s].handle /\ services[t].handle) =>
                services[s].nickname # services[t].nickname)

\* Of two launched services, one has lost its handle and its worker; the
\* worker of the other has just forwarded a request.
C14_Witness ==
    /\ Len(services) = 2
    /\ \E s, t \in 1..2 :
          /\ s # t
          /\ ~services[s].handle /\ services[s].worker # "running"
          /\ Forwarding(t)
          /\ last.ev = "request" /\ last.service = t
          /\ last.action.kind = "Forward"

\* ------------------------------------------------- C15
\* C15: the stored client's configuration allows onion addresses, whatever
\* custom_path its initializer was passed, and no connect call is refused by
\* the address filter.
C15_OnionAllowed ==
    /\ cell # NoClient => cell.config.allow_onion_addrs
    /\ (IsCall(last) /\ "domain" \in DOMAIN last) => ~last.filtered

\* A connect to a hidden service has returned the stream, on a client that
\* was initialized with a custom path.
C15_Witness ==
    /\ IsCall(last) /\ "domain" \in DOMAIN last
    /\ last.domain = "onion" /\ last.res = ResOk
    /\ cell.config.cache_dir # DefaultCacheDir

\* ------------------------------------------------- C16
\* C16: launch_onion_service stops at the first step that fails, in the order
\* client, proxy configuration, nickname, service configuration, library
\* launch: a call whose get_tor_client failed has gone no further; with the
\* client in hand port 0 is refused before the nickname is looked at, and the
\* nickname before the library launch is reached; a service and its one
\* running worker are added exactly by the calls that return Ok.
C16_StepsInOrder ==
    /\ [][(last = NoLast /\ IsLaunch(last')) =>
            /\ (last'.res = ResOk) <=> (services' # services)
            /\ (last'.res = ResOk) =>
                  /\ services' = Append(services, services'[Len(services')])
                  /\ services'[Len(services')].handle
                  /\ services'[Len(services')].worker = "running"
                  /\ services'[Len(services')].nickname = last'.nickname
                  /\ services'[Len(services')].port = last'.port
                  /\ "launch" \in last'.io
            /\ (cell' = NoClient) =>
                  /\ last'.res \in {ErrConfigBuilder, ErrArtiClient, ResCancelled}
                  /\ "launch" \notin last'.io
            /\ (cell' # NoClient /\ ~CancelStep /\ last'.port = 0) =>
                  last'.res = ErrProxyConfig
            /\ (last'.res = ErrProxyConfig) => last'.port = 0
            /\ (last'.res = ErrInvalidNickname) =>
                  (last'.port # 0 /\ EmptyOrInvalid(last'.nickname))
            /\ ("launch" \in last'.io) =>
                  /\ last'.port # 0 /\ ~EmptyOrInvalid(last'.nickname)
                  /\ last'.res \in {ResOk, ErrArtiClient}
                  /\ cell' # NoClient]_vars
    /\ [][services' # services /\ Len(services') > Len(services) =>
            (last = NoLast /\ IsLaunch(last') /\ last'.res = ResOk)]_vars

\* The launch that also ran the initializer has returned Ok: its service is
\* the only one, with its worker running.
C16_Witness ==
    /\ IsLaunch(last) /\ last.res = ResOk /\ "bootstrap" \in last.io
    /\ Len(services) = 1 /\ Forwarding(1)

\* ------------------------------------------------- C17
\* C17: the library launch and the spawn of the worker are one step of the
\* call: a cancelled call has never reached the library launch and has added
\* no service, and every service there is has had its worker spawned.
C17_LaunchSpawnAtomic ==
    /\ [][CancelStep =>
            (services' = services /\ "launch" \notin last'.io)]_vars
    /\ [](\A s \in 1..Len(services) :
            services[s].worker \in {"running", "exited", "failed"})
    /\ [][Len(services') > Len(services) =>
            /\ ~CancelStep
            /\ services'[Len(services')].worker = "running"]_vars

\* A launch_onion_service call was cancelled during the bootstrap: nothing
\* is published.
C17_Witness ==
    /\ IsLaunch(last) /\ last.res = ResCancelled /\ last.io = {"bootstrap"}
    /\ services = << >>

\* ------------------------------------------------- C18
\* C18: the return of a call and the cancellation of a call leave every
\* service and worker as they are; a worker stops running only by itself,
\* when its stream has ended after the drop of the handle or when it fails.
C18_WorkerDetached ==
    /\ [][(last # NoLast /\ last' = NoLast) => services' = services]_vars
    /\ [][(last = NoLast /\ IsCall(last') /\ last'.res # ResOk) =>
            services' = services]_vars
    /\ [][\A s \in 1..Len(services) :
            (services[s].worker = "running" /\ services'[s].worker # "running") =>
                /\ last = NoLast /\ last' = NoLast
                /\ services'[s].worker \in {"exited", "failed"}
                /\ (services'[s].worker = "exited") => ~services[s].handle]_vars

\* Every call has ended, none is in flight, and a worker has just forwarded
\* a request.
C18_Witness ==
    /\ ncalls = MaxCalls
    /\ holder = NoCall /\ waiters = << >> /\ streams = EmptyBag
    /\ last.ev = "request" /\ last.action.kind = "Forward"
    /\ Forwarding(last.service)

\* ------------------------------------------------- C19
\* the directories init_tor_client configures for custom_path
CacheDirOf(custom_path) ==
    IF custom_path = NoPath THEN <<"ARTI_CACHE">> ELSE <<custom_path, "cache">>
StateDirOf(custom_path) ==
    IF custom_path = NoPath THEN <<"ARTI_LOCAL_DATA">> ELSE <<custom_path, "state">>

====
